---- MODULE Spec2Model ----
(***************************************************************************)
(* A model of src/app.py: the Streamlit job-planning application of        *)
(* Appointed Time Printing.                                                *)
(*                                                                         *)
(* Instants (datetime) are counted in ticks of one second from a Monday    *)
(* 00:00:00; datetime itself resolves microseconds, and timedelta rounds   *)
(* a float number of hours to its resolution half-to-even, which the model *)
(* does at the resolution of one tick.  Durations in hours (Python floats) *)
(* are kept as exact fractions [num, den].  calculate_impressions is       *)
(* computed in IEEE-754 binary64 arithmetic, as Python computes it, on     *)
(* bit strings.                                                            *)
(***************************************************************************)
EXTENDS Integers, Sequences, FiniteSets, TLC

VARIABLES
    jobs,          \* st.session_state.jobs
    sales_reps,    \* st.session_state.sales_reps
    machine_load,  \* st.session_state.machine_load
    db_synced,     \* st.session_state.db_synced
    supabase,      \* the module-level client: TRUE a client, FALSE None
    db,            \* the rows of the store's table 'jobs'
    now,           \* datetime.now()
    refreshes,     \* how often "Refresh Data" was pressed
    last,          \* the handler that ran last, what add_job returned, st.error's text
    calc,          \* a call of calculate_impressions: arguments and outcome
    sched          \* two calls of calculate_job_schedule: arguments and results

vars == <<jobs, sales_reps, machine_load, db_synced, supabase, db, now, refreshes, last,
          calc, sched>>

-----------------------------------------------------------------------------
(* Bounds of the model *)

MaxJobs == 2        \* rows of the store, and so jobs of the session
MaxProcs == 2       \* length of a process list passed to add_job
MaxClock == 1       \* clock advances in one run
MaxRefresh == 1     \* presses of "Refresh Data" in one run

-----------------------------------------------------------------------------
(* Time *)

TicksPerHour == 60 * 60
TicksPerDay == 24 * TicksPerHour
NoTime == 0 - 1     \* None where an instant is expected

weekday(t) == (t \div TicksPerDay) % 7      \* 0 is Monday, as datetime.weekday()
hour(t) == (t % TicksPerDay) \div TicksPerHour

\* datetime.replace(minute=0, second=0, microsecond=0)
replace_minute0(t) == t - (t % TicksPerHour)

\* datetime.isoformat() and datetime.fromisoformat(): the text is kept as its fields
isoformat(t) ==
    [date |-> t \div TicksPerDay, hh |-> hour(t),
     mm |-> (t % TicksPerHour) \div 60, ss |-> t % 60]
fromisoformat(s) == s.date * TicksPerDay + s.hh * TicksPerHour + s.mm * 60 + s.ss
NullIso == [null |-> TRUE]

-----------------------------------------------------------------------------
(* Fractions of hours *)

Frac(n, d) == [num |-> n, den |-> d]
FracAdd(a, b) == [num |-> a.num * b.den + b.num * a.den, den |-> a.den * b.den]

RoundHalfEven(n, d) ==
    LET q == n \div d
        r == n % d
    IN  IF 2 * r < d THEN q
        ELSE IF 2 * r > d THEN q + 1
        ELSE IF q % 2 = 0 THEN q ELSE q + 1

\* timedelta(hours=duration)
timedelta_hours(duration) == RoundHalfEven(duration.num * TicksPerHour, duration.den)

-----------------------------------------------------------------------------
(* Machine table *)

MACHINE_DATA ==
    [m \in {"SM102-CX FOUR COLOUR", "SM102-P FIVE COLOUR", "SM 52",
            "GTO 52 SEMI-AUTO-2 COLOUR", "GTO 52 MANUAL-2 COLOUR",
            "FOLDING UNIT CONTINUOUS FOLD", "MBO-B30E SINGLE FOLD",
            "POLAR MACHINE FOR BOOKS", "POLAR MACHINE FOR SHEETS",
            "3 WAY TRIMMER", "PERFECT BINDING", "LAMINATION UNIT",
            "PEDDLER SADDLE STITCH", "DIE CUTTER", "FOLDER GLUER"} |->
        [rate |->
            CASE m = "SM102-CX FOUR COLOUR" -> 8000
              [] m = "SM102-P FIVE COLOUR" -> 7500
              [] m = "SM 52" -> 7000
              [] m = "GTO 52 SEMI-AUTO-2 COLOUR" -> 4500
              [] m = "GTO 52 MANUAL-2 COLOUR" -> 4000
              [] m = "FOLDING UNIT CONTINUOUS FOLD" -> 8000
              [] m = "MBO-B30E SINGLE FOLD" -> 16000
              [] m = "POLAR MACHINE FOR BOOKS" -> 2000
              [] m = "POLAR MACHINE FOR SHEETS" -> 50000
              [] m = "3 WAY TRIMMER" -> 5000
              [] m = "PERFECT BINDING" -> 500
              [] m = "LAMINATION UNIT" -> 2500
              [] m = "PEDDLER SADDLE STITCH" -> 1000
              [] m = "DIE CUTTER" -> 3000
              [] m = "FOLDER GLUER" -> 12000]]

Machines == DOMAIN MACHINE_DATA

\* sorted(MACHINE_DATA.keys())
SortedMachines ==
    <<"3 WAY TRIMMER", "DIE CUTTER", "FOLDER GLUER", "FOLDING UNIT CONTINUOUS FOLD",
      "GTO 52 MANUAL-2 COLOUR", "GTO 52 SEMI-AUTO-2 COLOUR", "LAMINATION UNIT",
      "MBO-B30E SINGLE FOLD", "PEDDLER SADDLE STITCH", "PERFECT BINDING",
      "POLAR MACHINE FOR BOOKS", "POLAR MACHINE FOR SHEETS", "SM 52",
      "SM102-CX FOUR COLOUR", "SM102-P FIVE COLOUR">>

SETUP_HOURS == 2

-----------------------------------------------------------------------------
(* calculate_processing_time and calculate_job_schedule *)

\* lines 81-87 with the setup time forgotten
calculate_processing_time_no_setup(machine, impressions) ==
    IF machine \notin Machines THEN Frac(0, 1)
    ELSE Frac(impressions, MACHINE_DATA[machine].rate)

calculate_processing_time(machine, impressions) ==
    IF machine \notin Machines THEN Frac(0, 1)
    ELSE LET rate == MACHINE_DATA[machine].rate
             run_time == Frac(impressions, rate)
         IN  FracAdd(Frac(SETUP_HOURS, 1), run_time)

\* line 92 without the replace(): start_time or datetime.now()
initial_current_time_untruncated(start_time, clock) ==
    IF start_time # NoTime THEN start_time ELSE clock

\* line 92: start_time or datetime.now().replace(minute=0, second=0, microsecond=0)
initial_current_time(start_time, clock) ==
    IF start_time # NoTime THEN start_time ELSE replace_minute0(clock)

\* line 100 with an end that falls outside 08:00-17:00 moved on by the 15 hours of
\* the night
step_end_time_after_night(current_time, duration) ==
    LET end_time == current_time + timedelta_hours(duration)
    IN  IF hour(end_time) >= 17 \/ hour(end_time) < 8
        THEN end_time + 15 * TicksPerHour ELSE end_time

\* line 100: end_time = current_time + timedelta(hours=duration)
step_end_time(current_time, duration) == current_time + timedelta_hours(duration)

\* line 112 left out: the next step starts where this one started
next_current_time_stays(current_time, end_time) == current_time

\* line 112: current_time = end_time
next_current_time(current_time, end_time) == end_time

\* lines 95-97: a process that is not in MACHINE_DATA is warned about and skipped
skips_process(process) == process \notin Machines

\* lines 94-112: the loop over the processes
RECURSIVE schedule_loop(_, _, _, _)
schedule_loop(processes, impressions, current_time, schedule) ==
    IF processes = <<>> THEN schedule
    ELSE LET process == Head(processes) IN
         IF skips_process(process)
         THEN schedule_loop(Tail(processes), impressions, current_time, schedule)
         ELSE LET duration == calculate_processing_time(process, impressions)
                  end_time == step_end_time(current_time, duration)
                  task == [process |-> process,
                           start |-> current_time,
                           end |-> end_time,
                           duration |-> duration,
                           impressions |-> impressions,
                           run_time |-> Frac(impressions, MACHINE_DATA[process].rate),
                           setup_time |-> SETUP_HOURS]
              IN  schedule_loop(Tail(processes), impressions,
                                next_current_time(current_time, end_time),
                                Append(schedule, task))

calculate_job_schedule(job_name, impressions, processes, start_time, clock) ==
    schedule_loop(processes, impressions, initial_current_time(start_time, clock), <<>>)

-----------------------------------------------------------------------------
(* IEEE-754 binary64 arithmetic on non-negative values.  A value is        *)
(* [m, e]: the natural number m times 2^e, m a sequence of limbs of        *)
(* LimbBits bits, least significant first.  Results are rounded to 53      *)
(* significant bits, ties to even, as the hardware does; the values here   *)
(* are far from the subnormal and overflow ranges.                         *)

LimbBits == 3 * 4
Base == 2 ^ LimbBits
Precision == 52 + 1         \* significant bits of a binary64
GuardBits == 8 * LimbBits   \* quotient bits computed beyond the dividend's

RECURSIVE NatToBig(_)
NatToBig(n) == IF n = 0 THEN <<>> ELSE <<n % Base>> \o NatToBig(n \div Base)

RECURSIVE BigToNat(_)
BigToNat(b) == IF b = <<>> THEN 0 ELSE Head(b) + Base * BigToNat(Tail(b))

RECURSIVE BigStrip(_)
BigStrip(b) ==
    IF b = <<>> THEN <<>>
    ELSE IF b[Len(b)] = 0 THEN BigStrip(SubSeq(b, 1, Len(b) - 1)) ELSE b

RECURSIVE NatBitLen(_)
NatBitLen(n) == IF n = 0 THEN 0 ELSE 1 + NatBitLen(n \div 2)

BigBitLen(b) ==
    LET s == BigStrip(b)
    IN  IF s = <<>> THEN 0 ELSE LimbBits * (Len(s) - 1) + NatBitLen(s[Len(s)])

\* bit i of b, bit 0 the least significant
BigBit(b, i) ==
    IF (i \div LimbBits) + 1 > Len(b) THEN 0
    ELSE (b[(i \div LimbBits) + 1] \div (2 ^ (i % LimbBits))) % 2

BigLimb(b, j) == IF j >= 1 /\ j <= Len(b) THEN b[j] ELSE 0

RECURSIVE BigAdd(_, _, _)
BigAdd(a, b, carry) ==
    IF a = <<>> /\ b = <<>> THEN (IF carry = 0 THEN <<>> ELSE <<carry>>)
    ELSE LET t == BigLimb(a, 1) + BigLimb(b, 1) + carry
         IN  <<t % Base>> \o BigAdd(IF a = <<>> THEN <<>> ELSE Tail(a),
                                    IF b = <<>> THEN <<>> ELSE Tail(b), t \div Base)

\* b * k + carry, for k < 2^19
RECURSIVE BigMulSmall(_, _, _)
BigMulSmall(b, k, carry) ==
    IF b = <<>> THEN NatToBig(carry)
    ELSE LET t == Head(b) * k + carry
         IN  <<t % Base>> \o BigMulSmall(Tail(b), k, t \div Base)

\* quotient and remainder of b by d, for 0 < d < 2^19
RECURSIVE BigDivSmall(_, _)
BigDivSmall(b, d) ==
    IF b = <<>> THEN [q |-> <<>>, r |-> 0]
    ELSE LET hi == BigDivSmall(Tail(b), d)
             t == Base * hi.r + Head(b)
         IN  [q |-> <<t \div d>> \o hi.q, r |-> t % d]

BigShiftLeft(b, k) ==
    IF b = <<>> THEN <<>>
    ELSE [i \in 1..(k \div LimbBits) |-> 0] \o BigMulSmall(b, 2 ^ (k % LimbBits), 0)

\* floor(b / 2^k)
BigShiftRight(b, k) ==
    LET q == k \div LimbBits
        s == k % LimbBits
    IN  BigStrip([j \in 1..(IF Len(b) > q THEN Len(b) - q ELSE 0) |->
                    (BigLimb(b, q + j) \div (2 ^ s))
                    + (BigLimb(b, q + j + 1) % (2 ^ s)) * (2 ^ (LimbBits - s))])

\* the binary64 nearest to (big + a fraction that is non-zero iff sticky) * 2^e
FloatRound(big, e, sticky) ==
    LET b == BigStrip(big)
        n == BigBitLen(b)
    IN  IF n <= Precision THEN [m |-> b, e |-> e]
        ELSE LET drop == n - Precision
                 kept == BigShiftRight(b, drop)
                 guard == BigBit(b, drop - 1)
                 rest == sticky \/ \E i \in 0..(drop - 2) : BigBit(b, i) = 1
                 up == guard = 1 /\ (rest \/ BigBit(kept, 0) = 1)
                 m1 == IF up THEN BigAdd(kept, <<1>>, 0) ELSE kept
             IN  IF BigBitLen(m1) > Precision
                 THEN [m |-> BigShiftRight(m1, 1), e |-> e + drop + 1]
                 ELSE [m |-> m1, e |-> e + drop]

FloatOfInt(n) == [m |-> NatToBig(n), e |-> 0]

\* a / d for an integer d > 0
FloatDiv(a, d) ==
    LET qr == BigDivSmall(BigShiftLeft(a.m, GuardBits), d)
    IN  FloatRound(qr.q, a.e - GuardBits, qr.r # 0)

FloatAdd(a, b) ==
    LET e == IF a.e < b.e THEN a.e ELSE b.e
    IN  FloatRound(BigAdd(BigShiftLeft(a.m, a.e - e), BigShiftLeft(b.m, b.e - e), 0),
                   e, FALSE)

\* k * a for an integer k >= 0
FloatMul(k, a) == FloatRound(BigMulSmall(a.m, k, 0), a.e, FALSE)

FloatFloor(a) ==
    IF a.e >= 0 THEN BigToNat(BigShiftLeft(a.m, a.e))
    ELSE BigToNat(BigShiftRight(a.m, 0 - a.e))

FloatIsInteger(a) == a.e >= 0 \/ \A i \in 0..(0 - a.e - 1) : BigBit(a.m, i) = 0

\* math.ceil(x) and int(x) for x >= 0
math_ceil(a) == IF FloatIsInteger(a) THEN FloatFloor(a) ELSE FloatFloor(a) + 1
int_of_float(a) == FloatFloor(a)

-----------------------------------------------------------------------------
(* calculate_impressions.  overs_pct is a float given as the fraction      *)
(* [num, den] with den 1 or 2 (the form steps it by 0.5), which a binary64 *)
(* holds exactly.  The outcome is [raised, value]: raised names the        *)
(* exception, "" when the call returns value.                              *)

FloatOfOvers(overs_pct) ==
    [m |-> NatToBig(overs_pct.num), e |-> IF overs_pct.den = 1 THEN 0 ELSE 0 - 1]

Returned(v) == [raised |-> "", value |-> v]
Raised(x) == [raised |-> x, value |-> 0]

\* lines 72-75 with "ups < 0" for "ups <= 0": a zero ups reaches the division
calculate_impressions_zero_ups(finished_qty, ups, overs_pct) ==
    IF ups < 0 \/ finished_qty <= 0 THEN Raised("ValueError")
    ELSE IF overs_pct.num < 0 THEN Raised("ValueError")
    ELSE IF ups = 0 THEN Raised("ZeroDivisionError")
    ELSE LET sheets == math_ceil(FloatDiv(FloatOfInt(finished_qty), ups))
             impressions ==
                 FloatMul(sheets, FloatAdd(FloatOfInt(1), FloatDiv(FloatOfOvers(overs_pct), 100)))
         IN  Returned(int_of_float(impressions))

calculate_impressions(finished_qty, ups, overs_pct) ==
    IF ups <= 0 \/ finished_qty <= 0 THEN Raised("ValueError")
    ELSE IF overs_pct.num < 0 THEN Raised("ValueError")
    ELSE LET sheets == math_ceil(FloatDiv(FloatOfInt(finished_qty), ups))
             impressions ==
                 FloatMul(sheets, FloatAdd(FloatOfInt(1), FloatDiv(FloatOfOvers(overs_pct), 100)))
         IN  Returned(int_of_float(impressions))

-----------------------------------------------------------------------------
(* The store (Supabase table 'jobs') and the session state.  Operators on  *)
(* the session take and return st = [jobs, sales_reps, machine_load,       *)
(* db_synced].                                                             *)

Session == [jobs |-> jobs, sales_reps |-> sales_reps,
            machine_load |-> machine_load, db_synced |-> db_synced]

\* lines 58-67: the session state of a new session
NewSession == [jobs |-> <<>>, sales_reps |-> {},
               machine_load |-> [m \in Machines |-> <<>>], db_synced |-> FALSE]

\* lines 116-126.  insert_ok: whether the insert succeeds or raises; an insert that
\* raises leaves the table as it was.  The row the store keeps is the inserted
\* record with the id the store gives it.  error is the text of st.error.
save_job_to_db(rows, job_data, insert_ok) ==
    IF ~supabase THEN [ret |-> FALSE, rows |-> rows, error |-> ""]
    ELSE IF insert_ok
         THEN [ret |-> TRUE,
               rows |-> Append(rows, [id |-> Len(rows) + 1, record |-> job_data]),
               error |-> ""]
         ELSE [ret |-> FALSE, rows |-> rows, error |-> "Error saving job"]

\* lines 141-148: one task of a stored schedule
load_task(task) ==
    [process |-> task.process,
     start |-> fromisoformat(task.start),
     end |-> fromisoformat(task.end),
     duration |-> task.duration,
     impressions |-> task.impressions]

\* lines 137-162: one stored record
load_job(row) ==
    LET record == row.record IN
    [id |-> row.id,
     name |-> record.name,
     sales_rep |-> record.sales_rep,
     impressions |-> record.impressions,
     processes |-> record.processes,
     contract_value |-> record.contract_value,
     schedule |-> [i \in DOMAIN record.schedule |-> load_task(record.schedule[i])],
     target_deadline |-> IF record.target_deadline # NullIso
                         THEN fromisoformat(record.target_deadline) ELSE NoTime,
     created_at |-> fromisoformat(record.created_at)]

\* lines 128-167.  select_ok: whether the select succeeds or raises.
load_jobs_from_db(rows, select_ok) ==
    IF ~supabase THEN [jobs |-> <<>>, sales_reps |-> {}]
    ELSE IF select_ok
         THEN [jobs |-> [i \in DOMAIN rows |-> load_job(rows[i])],
               sales_reps |-> {rows[i].record.sales_rep : i \in DOMAIN rows}]
         ELSE [jobs |-> <<>>, sales_reps |-> {}]

\* lines 230-236 and 248-254: the tasks of one job appended to the machine load
RECURSIVE append_load(_, _, _)
append_load(load, name, schedule) ==
    IF schedule = <<>> THEN load
    ELSE LET task == Head(schedule)
             entry == [job |-> name, start |-> task.start,
                       end |-> task.end, duration |-> task.duration]
         IN  append_load([load EXCEPT ![task.process] = Append(@, entry)],
                         name, Tail(schedule))

\* lines 247-254: the loop over the loaded jobs
RECURSIVE rebuild_load(_, _)
rebuild_load(load, js) ==
    IF js = <<>> THEN load
    ELSE rebuild_load(append_load(load, Head(js).name, Head(js).schedule), Tail(js))

\* lines 241-254: the load at the top of every run of the script
startup_load(st, rows, select_ok) ==
    IF ~st.db_synced /\ supabase
    THEN LET loaded == load_jobs_from_db(rows, select_ok)
         IN  [jobs |-> loaded.jobs,
              sales_reps |-> st.sales_reps \cup loaded.sales_reps,
              machine_load |-> rebuild_load(st.machine_load, loaded.jobs),
              db_synced |-> TRUE]
    ELSE st

\* lines 203-223: the record handed to the store
db_job_of(name, sales_rep, impressions, processes, contract_value, schedule, target_deadline, clock) ==
    [name |-> name,
     sales_rep |-> sales_rep,
     impressions |-> impressions,
     processes |-> processes,
     contract_value |-> contract_value,
     schedule |-> [i \in DOMAIN schedule |->
                     [process |-> schedule[i].process,
                      start |-> isoformat(schedule[i].start),
                      end |-> isoformat(schedule[i].end),
                      duration |-> schedule[i].duration,
                      impressions |-> schedule[i].impressions,
                      run_time |-> schedule[i].run_time,
                      setup_time |-> schedule[i].setup_time]],
     target_deadline |-> IF target_deadline # NoTime
                         THEN isoformat(target_deadline) ELSE NullIso,
     created_at |-> isoformat(clock)]

\* lines 225-239, with the session updated before the save is known to have succeeded
commit_job_eager(st, job, saved) ==
    [st EXCEPT !.jobs = Append(@, job),
               !.sales_reps = @ \cup {job.sales_rep},
               !.machine_load = append_load(@, job.name, job.schedule)]

\* lines 225-239: the session is updated only if the save succeeded
commit_job(st, job, saved) ==
    IF saved
    THEN [st EXCEPT !.jobs = Append(@, job),
                    !.sales_reps = @ \cup {job.sales_rep},
                    !.machine_load = append_load(@, job.name, job.schedule)]
    ELSE st

\* lines 177-239.  The outcome is [st, rows, ret, error].  The production efficiency kept
\* in the job (lines 169-175, 199) is shown on the dashboard only and is left out.
add_job(st, rows, name, sales_rep, impressions, processes, contract_value, target_deadline, clock, insert_ok) ==
    LET schedule == calculate_job_schedule(name, impressions, processes, NoTime, clock)
    IN  IF schedule = <<>>
        THEN [st |-> st, rows |-> rows, ret |-> FALSE,
              error |-> "No valid processes selected"]
        ELSE LET finish_time == schedule[Len(schedule)].end
                 is_on_time == target_deadline = NoTime \/ finish_time <= target_deadline
                 job == [name |-> name,
                         sales_rep |-> sales_rep,
                         impressions |-> impressions,
                         processes |-> processes,
                         contract_value |-> contract_value,
                         schedule |-> schedule,
                         target_deadline |-> target_deadline,
                         created_at |-> clock,
                         on_time |-> is_on_time]
                 db_job == db_job_of(name, sales_rep, impressions, processes,
                                     contract_value, schedule, target_deadline, clock)
                 saved == save_job_to_db(rows, db_job, insert_ok)
             IN  [st |-> commit_job(st, job, saved.ret),
                  rows |-> saved.rows, ret |-> saved.ret, error |-> saved.error]

-----------------------------------------------------------------------------
(* Inputs of the model *)

JobNames == {"Brochure", "Flyer"}
SalesRepNames == {"John Smith"}
ContractValues == {5000}
UnknownProcess == "HAND FINISHING"          \* a name that is not in MACHINE_DATA
ProcessNames == {"SM 52", UnknownProcess}            \* the names add_job is called with
FormMachines == {"SM 52", "PERFECT BINDING"}    \* the boxes the model ticks
FormInputs == {[finished_qty |-> 100, ups |-> 1, overs_pct |-> Frac(15, 1)]}
FormImpressions ==
    [f \in FormInputs |-> calculate_impressions(f.finished_qty, f.ups, f.overs_pct)]
ImpressionCounts == {8500}                      \* the counts add_job is called with

SeqsUpTo(S, n) == UNION {[1..k -> S] : k \in 0..n}
ProcessLists == SeqsUpTo(ProcessNames, MaxProcs)

ClockStep == 30 * 60
StartInstant == 4 * TicksPerDay + 15 * TicksPerHour + 30 * 60     \* a Friday, 15:30
LastInstant == StartInstant + MaxClock * ClockStep
SaturdayDate == (StartInstant \div TicksPerDay) + 1    \* the day after StartInstant
TargetDates == {SaturdayDate}

\* the store before the session: empty, or holding a job that an earlier session
\* saved on the Thursday at 10:20
EarlierInstant == 3 * TicksPerDay + 10 * TicksPerHour + 20 * 60
EarlierRow ==
    [id |-> 1,
     record |-> db_job_of("Brochure", "John Smith", 8500, <<"SM 52">>, 5000,
                          calculate_job_schedule("Brochure", 8500, <<"SM 52">>,
                                                 NoTime, EarlierInstant),
                          NoTime, EarlierInstant)]
InitialStores == {<<>>, <<EarlierRow>>}

-----------------------------------------------------------------------------
(* The application: one action per handler, each a whole run of the script *)

Idle == [phase |-> "idle"]

\* what the store may answer: an insert or a select succeeds or raises, when there
\* is a client and the call is made at all
InsertOutcomes == IF supabase THEN BOOLEAN ELSE {FALSE}
SelectOutcomes == IF supabase /\ ~db_synced THEN BOOLEAN ELSE {TRUE}

SetSession(st) ==
    /\ jobs' = st.jobs
    /\ sales_reps' = st.sales_reps
    /\ machine_load' = st.machine_load
    /\ db_synced' = st.db_synced

\* lines 55-67 and 241-254: the first run of the script in a new session
Init ==
    /\ supabase \in BOOLEAN
    /\ db \in InitialStores
    /\ now = StartInstant
    /\ refreshes = 0
    /\ \E select_ok \in BOOLEAN :
         LET st == startup_load(NewSession, db, select_ok)
         IN  /\ jobs = st.jobs
             /\ sales_reps = st.sales_reps
             /\ machine_load = st.machine_load
             /\ db_synced = st.db_synced
    /\ last = [op |-> "startup", ret |-> "none", error |-> ""]
    /\ calc = Idle
    /\ sched = Idle

\* a call of add_job (lines 177-239) with any arguments
AddJobCall(name, sales_rep, impressions, processes, contract_value, target_deadline, insert_ok) ==
    /\ insert_ok => Len(db) < MaxJobs
    /\ LET r == add_job(Session, db, name, sales_rep, impressions, processes,
                        contract_value, target_deadline, now, insert_ok)
       IN  /\ SetSession(r.st)
           /\ db' = r.rows
           /\ last' = [op |-> "add_job", ret |-> IF r.ret THEN "True" ELSE "False",
                        error |-> r.error]
    /\ UNCHANGED <<supabase, now, refreshes, calc, sched>>

\* lines 424-427: the ticked machines, in the order of the sorted machine names
selected_processes_of(checked) == SelectSeq(SortedMachines, LAMBDA m : m \in checked)

\* lines 379-472: the form "Create Job & Schedule" is submitted
PlanJobSubmit(job_name, sales_rep, form, checked, contract_value, target_deadline, insert_ok, select_ok) ==
    /\ insert_ok => Len(db) < MaxJobs
    /\ LET st0 == startup_load(Session, db, select_ok)
           outcome == FormImpressions[form]
           selected_processes == selected_processes_of(checked)
           target_dt == IF target_deadline # NoTime
                        THEN target_deadline * TicksPerDay ELSE NoTime
       IN  IF job_name = "" \/ sales_rep = "" \/ selected_processes = <<>>
              \/ outcome.raised # ""
           THEN /\ SetSession(st0)
                /\ db' = db
                /\ last' = [op |-> "plan_job", ret |-> "none",
                             error |-> "Please fill all fields"]
           ELSE LET r == add_job(st0, db, job_name, sales_rep, outcome.value,
                                 selected_processes, contract_value, target_dt,
                                 now, insert_ok)
                IN  /\ SetSession(r.st)
                    /\ db' = r.rows
                    /\ last' = [op |-> "plan_job",
                                ret |-> IF r.ret THEN "True" ELSE "False",
                                error |-> r.error]
    /\ UNCHANGED <<supabase, now, refreshes, calc, sched>>

\* lines 356-367: "Delete Latest Job" is pressed; the sidebar filter is "All", so
\* the buttons are there whenever the session holds a job.  st.rerun() runs the
\* script once more.
DeleteLatestJob(select_ok) ==
    LET st0 == startup_load(Session, db, select_ok) IN
    /\ st0.jobs # <<>>
    /\ LET st1 == [st0 EXCEPT !.jobs = SubSeq(@, 1, Len(@) - 1)]
       IN  /\ SetSession(startup_load(st1, db, select_ok))
           /\ last' = [op |-> "delete_job", ret |-> "none", error |-> ""]
    /\ UNCHANGED <<supabase, db, now, refreshes, calc, sched>>

\* lines 368-371: "Refresh Data" is pressed
RefreshData(select_ok) ==
    LET st0 == startup_load(Session, db, select_ok) IN
    /\ st0.jobs # <<>>
    /\ refreshes < MaxRefresh
    /\ refreshes' = refreshes + 1
    /\ LET st1 == [st0 EXCEPT !.db_synced = FALSE]
       IN  SetSession(startup_load(st1, db, select_ok))
    /\ last' = [op |-> "refresh_data", ret |-> "none", error |-> ""]
    /\ UNCHANGED <<supabase, db, now, calc, sched>>

\* the wall clock advances
Tick ==
    /\ now < LastInstant
    /\ now' = now + ClockStep
    /\ UNCHANGED <<jobs, sales_reps, machine_load, db_synced, supabase, db, refreshes,
                   last, calc, sched>>

Next ==
    \/ \E name \in JobNames, sales_rep \in SalesRepNames, impressions \in ImpressionCounts,
          processes \in ProcessLists, contract_value \in ContractValues,
          target_deadline \in {NoTime}, insert_ok \in InsertOutcomes :
         AddJobCall(name, sales_rep, impressions, processes, contract_value,
                    target_deadline, insert_ok)
    \/ \E job_name \in JobNames \cup {""}, sales_rep \in SalesRepNames,
          form \in FormInputs, checked \in SUBSET FormMachines,
          contract_value \in ContractValues, target_deadline \in TargetDates,
          insert_ok \in InsertOutcomes, select_ok \in SelectOutcomes :
         PlanJobSubmit(job_name, sales_rep, form, checked, contract_value,
                       target_deadline, insert_ok, select_ok)
    \/ \E select_ok \in BOOLEAN : DeleteLatestJob(select_ok)
    \/ \E select_ok \in BOOLEAN : RefreshData(select_ok)
    \/ Tick

Spec == Init /\ [][Next]_vars

-----------------------------------------------------------------------------
(* calculate_impressions called on its own *)

Quantities == {0, 100, 200, 1000, 10000, 100000}
UpsChoices == {0 - 1, 0, 1, 3, 12}
OversChoices == {Frac(h, 2) : h \in {0 - 1, 0, 1, 5, 10}} \cup {Frac(n, 1) : n \in {2, 13, 15}}

Untouched ==
    /\ jobs = NewSession.jobs
    /\ sales_reps = NewSession.sales_reps
    /\ machine_load = NewSession.machine_load
    /\ db_synced = NewSession.db_synced
    /\ supabase = FALSE
    /\ db = <<>>
    /\ refreshes = 0
    /\ last = [op |-> "startup", ret |-> "none", error |-> ""]

CalcInit ==
    /\ Untouched
    /\ now = StartInstant
    /\ sched = Idle
    /\ \E finished_qty \in Quantities, ups \in UpsChoices, overs_pct \in OversChoices :
         calc = [phase |-> "args", finished_qty |-> finished_qty, ups |-> ups,
                 overs_pct |-> overs_pct]

CalcImpressions ==
    /\ calc.phase = "args"
    /\ calc' = [phase |-> "done", finished_qty |-> calc.finished_qty, ups |-> calc.ups,
                overs_pct |-> calc.overs_pct,
                outcome |-> calculate_impressions(calc.finished_qty, calc.ups,
                                                  calc.overs_pct)]
    /\ UNCHANGED <<jobs, sales_reps, machine_load, db_synced, supabase, db, now,
                   refreshes, last, sched>>

CalcNext == CalcImpressions

CalcSpec == CalcInit /\ [][CalcNext]_vars

-----------------------------------------------------------------------------
(* calculate_job_schedule called on its own, twice with the same arguments *)

SchedProcessNames == Machines \cup {UnknownProcess}
SchedProcessLists == SeqsUpTo(SchedProcessNames, MaxProcs)
SchedImpressions == {0, 8500}
TuesdayNine == 1 * TicksPerDay + 9 * TicksPerHour
SchedStartTimes == {NoTime, TuesdayNine}
QuarterHour == 15 * 60

SchedInit ==
    /\ Untouched
    /\ now = StartInstant
    /\ calc = Idle
    /\ \E impressions \in SchedImpressions, processes \in SchedProcessLists,
          start_time \in SchedStartTimes :
         sched = [phase |-> "args", impressions |-> impressions,
                  processes |-> processes, start_time |-> start_time]

ScheduleFirst ==
    /\ sched.phase = "args"
    /\ sched' = [phase |-> "once", impressions |-> sched.impressions,
                 processes |-> sched.processes, start_time |-> sched.start_time,
                 first |-> [at |-> now,
                            schedule |-> calculate_job_schedule("Brochure",
                                             sched.impressions, sched.processes,
                                             sched.start_time, now)]]
    /\ UNCHANGED <<jobs, sales_reps, machine_load, db_synced, supabase, db, now,
                   refreshes, last, calc>>

ScheduleSecond ==
    /\ sched.phase = "once"
    /\ sched' = [phase |-> "twice", impressions |-> sched.impressions,
                 processes |-> sched.processes, start_time |-> sched.start_time,
                 first |-> sched.first,
                 second |-> [at |-> now,
                             schedule |-> calculate_job_schedule("Brochure",
                                              sched.impressions, sched.processes,
                                              sched.start_time, now)]]
    /\ UNCHANGED <<jobs, sales_reps, machine_load, db_synced, supabase, db, now,
                   refreshes, last, calc>>

SchedTick ==
    /\ now < LastInstant
    /\ now' = now + QuarterHour
    /\ UNCHANGED <<jobs, sales_reps, machine_load, db_synced, supabase, db, refreshes,
                   last, calc, sched>>

SchedNext == ScheduleFirst \/ ScheduleSecond \/ SchedTick

SchedSpec == SchedInit /\ [][SchedNext]_vars

-----------------------------------------------------------------------------
(* Helpers of the properties *)

\* the shift calendar the specification states its properties with (section 4.1)
is_working_time(t, night_shift, weekend_work) ==
    IF ~weekend_work /\ weekday(t) >= 5 THEN FALSE
    ELSE IF ~night_shift /\ (hour(t) < 8 \/ hour(t) >= 17) THEN FALSE
    ELSE TRUE

\* [s, e) holds an instant that is not working time (day shift, no weekend work);
\* the calendar changes on the hour only
ContainsNonWorkingTime(s, e) ==
    \E k \in 0..(((e - s) \div TicksPerHour) + 1) :
        LET t == IF k = 0 THEN s ELSE replace_minute0(s) + k * TicksPerHour
        IN  t < e /\ ~is_working_time(t, FALSE, FALSE)

RECURSIVE Gcd(_, _)
Gcd(a, b) == IF b = 0 THEN a ELSE Gcd(b, a % b)
FracNorm(f) == LET g == Gcd(f.num, f.den) IN Frac(f.num \div g, f.den \div g)

Tasks(schedule) == {schedule[i] : i \in DOMAIN schedule}
Scheduled == sched.phase \in {"once", "twice"}
FirstSchedule == sched.first.schedule

-----------------------------------------------------------------------------
(* Properties *)

\* C1: in every schedule that calculate_job_schedule returns, each step starts at
\* or after the end of the step before it.
C1_StepsSequential ==
    Scheduled =>
        \A i \in 1..(Len(FirstSchedule) - 1) :
            FirstSchedule[i + 1].start >= FirstSchedule[i].end

C1_Witness ==
    /\ Scheduled
    /\ sched.impressions > 0
    /\ Len(FirstSchedule) >= 2
    /\ FirstSchedule[1].process # FirstSchedule[2].process

\* C2: the steps that two jobs of the session book on one machine never overlap: the
\* step of the job added later starts no earlier than the end of the step of the
\* job added before it.
C2_MachineStepsDoNotOverlap ==
    \A i \in DOMAIN jobs : \A j \in DOMAIN jobs :
        i < j =>
            \A a \in Tasks(jobs[i].schedule) : \A b \in Tasks(jobs[j].schedule) :
                a.process = b.process => b.start >= a.end

\* C3: every step of a schedule (the code knows no night shift and no weekend
\* work) starts at a working instant: Monday to Friday, from 08:00 to before 17:00.
C3_StartsInWorkingTime ==
    Scheduled =>
        \A task \in Tasks(FirstSchedule) : is_working_time(task.start, FALSE, FALSE)

\* C4: the end of a step is never start + duration when [start, start + duration)
\* holds time that is not working time.
C4_FinishSkipsNonWorkingTime ==
    Scheduled =>
        \A task \in Tasks(FirstSchedule) :
            ContainsNonWorkingTime(task.start,
                                   task.start + timedelta_hours(task.duration))
                => task.end # task.start + timedelta_hours(task.duration)

\* C5: the duration of every scheduled step is the setup time of 2 hours plus
\* impressions / rate of the step's process, and so at least the setup time.
C5_DurationIsSetupPlusRun ==
    Scheduled =>
        \A task \in Tasks(FirstSchedule) :
            LET rate == MACHINE_DATA[task.process].rate
            IN  /\ FracNorm(task.duration)
                     = FracNorm(Frac(2 * rate + task.impressions, rate))
                /\ task.duration.num >= 2 * task.duration.den

C5_Witness ==
    /\ Scheduled
    /\ \E task \in Tasks(FirstSchedule) :
         task.impressions > 0 /\ task.process = "PERFECT BINDING"
    /\ \E task \in Tasks(FirstSchedule) : task.process = "POLAR MACHINE FOR SHEETS"

\* C6: a job whose process list names a process that is not in the machine table is
\* rejected as a whole: it is neither in the session nor in the store.
C6_UnknownProcessRejected ==
    /\ \A i \in DOMAIN jobs : \A k \in DOMAIN jobs[i].processes :
           jobs[i].processes[k] \in Machines
    /\ \A i \in DOMAIN db : \A k \in DOMAIN db[i].record.processes :
           db[i].record.processes[k] \in Machines

\* C7: when "Delete Latest Job" has deleted a job, no entry of a machine's load is a
\* step of that job and no row of the store is that job (other than by being a
\* step, or the row, of a job that is still in the session).
SameJob(a, b) ==
    /\ a.name = b.name
    /\ a.created_at = b.created_at
    /\ a.impressions = b.impressions
    /\ a.processes = b.processes
EntryOf(job, m) ==
    {[job |-> job.name, start |-> t.start, end |-> t.end, duration |-> t.duration] :
        t \in {x \in Tasks(job.schedule) : x.process = m}}
C7_DeleteStep == last'.op = "delete_job" /\ jobs # <<>> /\ jobs' # jobs
C7_DeleteRemovesJob ==
    [][C7_DeleteStep =>
        LET deleted_job == jobs[Len(jobs)]
            kept(job) == \E i \in DOMAIN jobs' : SameJob(jobs'[i], job)
        IN  \/ kept(deleted_job)
            \/ /\ \A m \in Machines : \A k \in DOMAIN machine_load'[m] :
                      machine_load'[m][k] \notin EntryOf(deleted_job, m)
               /\ \A i \in DOMAIN db' : ~SameJob(load_job(db'[i]), deleted_job)]_vars

\* C8: two calls of calculate_job_schedule with the same arguments return the same
\* steps, whatever the instants of the calls.
C8_SameArgumentsSameSchedule ==
    sched.phase = "twice" => sched.second.schedule = sched.first.schedule

\* C8, amended: two calls with the same arguments return the same steps when a
\* start_time is given or both calls are made within the same hour of the clock.
C8_SameScheduleWithinTheHour ==
    (/\ sched.phase = "twice"
     /\ \/ sched.start_time # NoTime
        \/ replace_minute0(sched.first.at) = replace_minute0(sched.second.at))
    => sched.second.schedule = sched.first.schedule

C8_Witness ==
    /\ sched.phase = "twice"
    /\ sched.start_time = NoTime
    /\ sched.first.at # sched.second.at
    /\ replace_minute0(sched.first.at) = replace_minute0(sched.second.at)
    /\ Len(sched.first.schedule) >= 2

\* C9: when the save of a job fails, add_job returns False, and whenever add_job
\* returns False the session's jobs, its sales reps, every machine's load and the
\* store are what they were before the call.
C9_FailedAddChangesNothing ==
    [][(/\ last'.op \in {"add_job", "plan_job"}
        /\ last'.ret = "False" \/ last'.error = "Error saving job")
        => /\ last'.ret = "False"
           /\ jobs' = jobs
           /\ sales_reps' = sales_reps
           /\ machine_load' = machine_load
           /\ db' = db]_vars

C9_Witness ==
    /\ last.op \in {"add_job", "plan_job"}
    /\ last.ret = "False"
    /\ last.error = "Error saving job"
    /\ jobs # <<>>

\* C10: calculate_impressions returns ceil(finished_qty / ups) * (1 + overs_pct/100)
\* rounded toward zero, for positive finished_qty and ups and overs_pct >= 0; and
\* 8500 for (100000, 12, 2).
C10_ImpressionsExact ==
    (/\ calc.phase = "done"
     /\ calc.finished_qty > 0
     /\ calc.ups > 0
     /\ calc.overs_pct.num >= 0)
    => LET sheets == (calc.finished_qty + calc.ups - 1) \div calc.ups
           o == calc.overs_pct
       IN  /\ calc.outcome.raised = ""
           /\ calc.outcome.value = (sheets * (100 * o.den + o.num)) \div (100 * o.den)

\* C11: calculate_impressions raises ValueError, and returns no value, whenever
\* ups <= 0 or overs_pct < 0; it returns a value whenever ups > 0, overs_pct >= 0
\* and finished_qty > 0.
C11_InvalidInputRaises ==
    calc.phase = "done" =>
        /\ (calc.ups <= 0 \/ calc.overs_pct.num < 0)
               => calc.outcome = Raised("ValueError")
        /\ (calc.ups > 0 /\ calc.overs_pct.num >= 0 /\ calc.finished_qty > 0)
               => calc.outcome.raised = "" /\ calc.outcome.value > 0

C11_Witness ==
    /\ calc.phase = "done"
    /\ calc.ups = 0
    /\ calc.finished_qty > 0
    /\ calc.overs_pct.num >= 0
    /\ calc.outcome.raised = "ValueError"

\* C12: a step is a pure offset with no gap inserted: its end is its start plus its
\* duration (to the half tick that timedelta rounds by), whatever the hour of day
\* of the start, also when the step runs through the evening and past midnight.
C12_FinishIsStartPlusDuration ==
    Scheduled =>
        \A task \in Tasks(FirstSchedule) :
            LET d == task.duration
                elapsed == task.end - task.start
                diff == elapsed * d.den - d.num * TicksPerHour
            IN  /\ 2 * diff <= d.den
                /\ 2 * diff >= 0 - d.den

C12_Witness ==
    /\ Scheduled
    /\ \E task \in Tasks(FirstSchedule) :
         /\ hour(task.start) >= 17
         /\ task.end \div TicksPerDay = (task.start \div TicksPerDay) + 1
         /\ hour(task.end) < 8

\* C13: every step of a scheduled job starts no earlier than now_base, the instant
\* of the scheduling call when no custom start is given (add_job gives none): no
\* step of the job that add_job has just added starts before the instant at which
\* add_job was called.
C13_NoStepBeforeTheCall ==
    [][(last'.op \in {"add_job", "plan_job"} /\ last'.ret = "True")
        => \A task \in Tasks(jobs'[Len(jobs')].schedule) : task.start >= now]_vars

\* C14: the machine load is a derived view of the session's jobs: the load list of
\* each machine holds exactly one entry for each step on that machine of each job
\* of the session, none twice and none of a job that is not there; add job and
\* refresh (each with the startup load of its run) keep it so.
Count(seq, e) == Cardinality({k \in DOMAIN seq : seq[k] = e})
LoadIsDerived ==
    LET derived == rebuild_load(NewSession.machine_load, jobs)
    IN  \A m \in Machines :
            \A e \in {machine_load[m][k] : k \in DOMAIN machine_load[m]}
                      \cup {derived[m][k] : k \in DOMAIN derived[m]} :
                Count(machine_load[m], e) = Count(derived[m], e)
C14_LoadIsDerivedView ==
    [][(last'.op \in {"add_job", "plan_job", "refresh_data"} /\ LoadIsDerived)
        => LoadIsDerived']_vars

\* C15: without a Supabase client the application works from the session state:
\* add_job, called by the form with a non-empty list of machines of the table,
\* returns True and appends the job to the session's jobs and its steps to the
\* machine load.
C15_AddJobWithoutClient ==
    [][(~supabase /\ last'.op = "plan_job" /\ last'.ret # "none")
        => /\ last'.ret = "True"
           /\ Len(jobs') = Len(jobs) + 1
           /\ LET job == jobs'[Len(jobs')]
              IN  machine_load' = append_load(machine_load, job.name, job.schedule)]_vars

====
